---- MODULE Spec2Model ----
(***************************************************************************)
(* A model of acspec's resolution engine:                                  *)
(*   - acspec/utils.py  topological_iteritems (the dependency orderer),    *)
(*   - acspec/model.py  BaseModel.append_field, _find_base_classes,        *)
(*                      ResolveableModelFactory, ResolveableModel.resolve, *)
(*                      TypeInfo.                                          *)
(***************************************************************************)
EXTENDS Naturals, Sequences, FiniteSets, TLC

VARIABLES
    \* ---- input of one run
    specs,          \* record name -> [bases: Seq(name), fields: Seq([name, fd])]
    order,          \* iteration order of the input mapping (iteritems)
    pre_emitted,    \* the seed list of topological_iteritems
    descriptor,     \* the MetaFieldDescriptor a caller holds: [type, required]
    ctx,            \* the context the caller passes to a materialization
    \* ---- topological_iteritems (a generator: its locals and its position)
    pending,        \* list of [name, bases]: bases is the entry's mutable set
    emitted,
    next_pending,
    next_emitted,
    idx,            \* position of the for loop in pending
    yielded,        \* the (name, spec) pairs yielded so far, by name
    tstate,         \* "run" | "done" (StopIteration) | "raised" (ValueError)
    \* ---- the classes (acspec/model.py and what the caller holds)
    classes,        \* class name -> [bases, mro, isModel, _fields, attrs, _subclasses]
    class_mapping,  \* the caller's capability mapping: base name -> class name
    resolvables,    \* record name -> ResolveableModel
    position_hint,  \* schematics' counter of the field objects created
    phase,          \* where the caller is: "phase1" | "phase2" | "failed" | "calls"
    last            \* the last call made and how it ended

topoVars == <<pending, emitted, next_pending, next_emitted, idx, yielded, tstate>>
inputVars == <<specs, order, pre_emitted, descriptor, ctx>>
modelVars == <<classes, class_mapping, resolvables, position_hint, phase, last>>
vars == <<inputVars, topoVars, modelVars>>

-----------------------------------------------------------------------------
(* Bounds and universes *)

\* Largest number of names in one record's bases list.
MaxBases == 2

\* The record names of the input mapping.
Names == {"a", "b", "c"}

\* Base names that are no record of the input: the built-in capability of
\* DEFAULT_MAPPINGS.
Externals == {"dont_serialize_when_none"}

\* What a caller may pass as pre_emitted.
SeedNames == {"dont_serialize_when_none", "a"}

-----------------------------------------------------------------------------
(* Helpers on sequences *)

Range(s) == {s[i] : i \in 1..Len(s)}

IsInjective(s) == \A i, j \in 1..Len(s) : s[i] = s[j] => i = j

Perms(S) == {s \in [1..Cardinality(S) -> S] : IsInjective(s)}

\* The sequences without repetition over S, of length at most n.
RECURSIVE ListsUpTo(_, _)
ListsUpTo(S, n) ==
    IF n = 0 THEN {<<>>}
    ELSE LET shorter == ListsUpTo(S, n - 1)
         IN  shorter \cup {Append(s, e) : s \in {t \in shorter : Len(t) = n - 1},
                                          e \in S}

\* One list per set: the elements in a fixed order.
RECURSIVE SetToSeq(_)
SetToSeq(S) ==
    IF S = {} THEN <<>>
    ELSE LET e == CHOOSE x \in S : TRUE
         IN  <<e>> \o SetToSeq(S \ {e})

-----------------------------------------------------------------------------
(* acspec/utils.py *)

\* has_option(spec, "bases") / get_option(spec, "bases"): the declared list,
\* as a set.
_get_bases(spec) == Range(spec.bases)

\* One execution of the body of "for entry in pending".
TopoVisit ==
    /\ tstate = "run"
    /\ idx <= Len(pending)
    /\ LET entry == pending[idx]
           \* bases.difference_update(emitted): the entry's own set is changed
           bases == entry.bases \ Range(emitted)
           kept  == [name |-> entry.name, bases |-> bases]
       IN  IF bases # {}
           THEN /\ next_pending' = Append(next_pending, kept)
                /\ UNCHANGED <<emitted, next_emitted, yielded>>
           ELSE /\ yielded' = Append(yielded, entry.name)
                /\ emitted' = Append(emitted, entry.name)
                /\ next_emitted' = Append(next_emitted, entry.name)
                /\ UNCHANGED next_pending
    /\ idx' = idx + 1
    /\ UNCHANGED <<pending, tstate>>

\* After the for loop: raise, or start the next pass of "while pending".
TopoEndPass ==
    /\ tstate = "run"
    /\ idx > Len(pending)
    /\ IF next_emitted = <<>>
       THEN /\ tstate' = "raised"
            /\ UNCHANGED <<pending, emitted, next_pending, next_emitted, idx>>
       ELSE /\ pending' = next_pending
            /\ emitted' = next_emitted
            /\ next_pending' = <<>>
            /\ next_emitted' = <<>>
            /\ idx' = 1
            /\ tstate' = IF next_pending = <<>> THEN "done" ELSE "run"
    /\ UNCHANGED yielded

\* The generator's state at its first resumption.
topological_iteritems(sp, ord, seed) ==
    /\ pending = [i \in 1..Len(ord) |->
                    [name |-> ord[i], bases |-> _get_bases(sp[ord[i]])]]
    /\ emitted = seed
    /\ next_pending = <<>>
    /\ next_emitted = <<>>
    /\ idx = 1
    /\ yielded = <<>>
    /\ tstate = IF Len(ord) = 0 THEN "done" ELSE "run"

-----------------------------------------------------------------------------
(* Values *)

None == "None"

\* An unset nested descriptor / a value with no inner field.
Unset == [unset |-> TRUE]

\* How a call ended: the exception raised (None: it returned) and the names
\* its message holds.
NoError == [kind |-> None, arg |-> {}]
Raise(kind, arg) == [kind |-> kind, arg |-> arg]

Min(S) == CHOOSE x \in S : \A y \in S : x <= y

\* An ordered dict as a list of [name, field]: d[name] = value keeps the place
\* of a key that is there and appends a new one.
DictKeys(d) == {d[i].name : i \in 1..Len(d)}
DictGet(d, name) == d[CHOOSE i \in 1..Len(d) : d[i].name = name].field
DictSet(d, name, value) ==
    IF name \in DictKeys(d)
    THEN [i \in 1..Len(d) |->
            IF d[i].name = name THEN [name |-> name, field |-> value] ELSE d[i]]
    ELSE Append(d, [name |-> name, field |-> value])

RECURSIVE DictUpdate(_, _)
DictUpdate(d, other) ==
    IF other = <<>> THEN d
    ELSE DictUpdate(DictSet(d, other[1].name, other[1].field), Tail(other))

-----------------------------------------------------------------------------
(* acspec/model.py: the classes *)

\* The class objects that exist before any record is built.  Mixin stands for
\* a capability class of the caller that is no schematics model.  TypeInfo and
\* MetaFieldDescriptor, the two other subclasses of BaseModel, describe the
\* input and are left out of the table.
InitialClasses ==
    [BaseModel |->
        [bases |-> <<>>, mro |-> <<"BaseModel">>, isModel |-> TRUE,
         _fields |-> <<>>, attrs |-> {},
         _subclasses |-> <<"DontSerializeWhenNoneModel">>],
     DontSerializeWhenNoneModel |->
        [bases |-> <<"BaseModel">>,
         mro |-> <<"DontSerializeWhenNoneModel", "BaseModel">>,
         isModel |-> TRUE, _fields |-> <<>>, attrs |-> {},
         _subclasses |-> <<>>],
     Mixin |->
        [bases |-> <<>>, mro |-> <<"Mixin">>, isModel |-> FALSE,
         _fields |-> <<>>, attrs |-> {}, _subclasses |-> <<>>]]

DEFAULT_MAPPINGS == [dont_serialize_when_none |-> "DontSerializeWhenNoneModel"]

\* issubclass(c, d)
IsSubclass(cl, c, d) == c \in DOMAIN cl /\ d \in Range(cl[c].mro)

\* cls._fields can be read: append_field(cls, "fields", f) binds the class
\* attribute "_fields" to a FieldDescriptor, whose __get__ reads cls._fields
\* again.
FieldsReadable(cl, c) == "_fields" \notin cl[c].attrs

\* Python's C3 linearization: the merge of the bases' MROs and the bases list.
RECURSIVE C3Merge(_)
C3Merge(seqs) ==
    LET NonEmpty(s) == s # <<>>
        rest == SelectSeq(seqs, NonEmpty)
        InTail(c) == \E i \in 1..Len(rest) : c \in Range(Tail(rest[i]))
        cands == {i \in 1..Len(rest) : ~InTail(Head(rest[i]))}
    IN  IF rest = <<>> THEN [ok |-> TRUE, mro |-> <<>>]
        ELSE IF cands = {} THEN [ok |-> FALSE, mro |-> <<>>]
        ELSE LET c == Head(rest[Min(cands)])
                 more == C3Merge([j \in 1..Len(rest) |->
                            IF Head(rest[j]) = c THEN Tail(rest[j]) ELSE rest[j]])
             IN  [ok |-> more.ok, mro |-> <<c>> \o more.mro]

\* fields.sort(key=lambda i: i[1]._position_hint) of schematics' metaclass
RECURSIVE SortByHint(_)
SortByHint(d) ==
    IF d = <<>> THEN <<>>
    ELSE LET i == Min({k \in 1..Len(d) :
                        \A j \in 1..Len(d) : d[k].field.hint <= d[j].field.hint})
         IN  <<d[i]>> \o SortByHint([k \in 1..(Len(d) - 1) |->
                                        IF k < i THEN d[k] ELSE d[k + 1]])

\* set_owner_model(field, klass) of the metaclass: the field and its inner fields
RECURSIVE SetOwnerDeep(_, _)
SetOwnerDeep(f, c) ==
    IF f.field = Unset THEN [f EXCEPT !.owner_model = c]
    ELSE [f EXCEPT !.owner_model = c, !.field = SetOwnerDeep(f.field, c)]

\* The fields a new class inherits: for base in reversed(bases):
\* fields.update(copy(base._fields)).
RECURSIVE InheritedFields(_, _, _)
InheritedFields(cl, bases, acc) ==
    IF bases = <<>> THEN acc
    ELSE LET base == bases[Len(bases)]
             front == SubSeq(bases, 1, Len(bases) - 1)
         IN  InheritedFields(cl, front,
                IF cl[base].isModel THEN DictUpdate(acc, cl[base]._fields) ELSE acc)

\* klass._subclasses = []; every model class of klass.__mro__[1:] appends klass.
RegisterSubclass(cl, name, mro) ==
    [c \in DOMAIN cl |->
        IF c \in Range(Tail(mro)) /\ cl[c].isModel
        THEN [cl[c] EXCEPT !._subclasses = Append(@, name)]
        ELSE cl[c]]

\* type(str(name), bases, {}) with a schematics model among the bases: Python's
\* checks of the bases, then schematics' ModelMeta.__new__.
NewClass(cl, name, bases) ==
    LET merged == C3Merge([i \in 1..(Len(bases) + 1) |->
                     IF i <= Len(bases) THEN cl[bases[i]].mro ELSE bases])
        mro == <<name>> \o merged.mro
        inherited == SortByHint(InheritedFields(cl, bases, <<>>))
        fields == [i \in 1..Len(inherited) |->
                     [name |-> inherited[i].name,
                      field |-> [SetOwnerDeep(inherited[i].field, name)
                                    EXCEPT !.name = inherited[i].name]]]
        klass == [bases |-> bases, mro |-> mro, isModel |-> TRUE,
                  _fields |-> fields, attrs |-> DictKeys(fields),
                  _subclasses |-> <<>>]
    IN  IF ~IsInjective(bases)
        THEN [err |-> Raise("TypeError", {"duplicate base class"}), classes |-> cl]
        ELSE IF ~merged.ok
        THEN [err |-> Raise("TypeError", {"MRO"}), classes |-> cl]
        ELSE IF \E i \in 1..Len(bases) :
                    cl[bases[i]].isModel /\ ~FieldsReadable(cl, bases[i])
        THEN [err |-> Raise("RecursionError", {"_fields"}), classes |-> cl]
        ELSE [err |-> NoError,
              classes |-> RegisterSubclass(
                  [c \in DOMAIN cl \cup {name} |-> IF c = name THEN klass ELSE cl[c]],
                  name, mro)]

\* A value that is no schematics type, and a fresh schematics type object.
NonField == [isField |-> FALSE]
NewField(type, inner, model_class, kwargs, hint) ==
    [isField |-> TRUE, type |-> type, field |-> inner, model_class |-> model_class,
     kwargs |-> kwargs, owner_model |-> None, name |-> None, hint |-> hint]

\* The copies of the field that the subclasses get, one subclass after the
\* other; reading the _fields of a subclass that lost it ends the loop.
RECURSIVE CopyToSubclasses(_, _, _, _)
CopyToSubclasses(cl, subs, name, field) ==
    IF subs = <<>> THEN [err |-> NoError, classes |-> cl]
    ELSE LET subclass == Head(subs)
         IN  IF ~FieldsReadable(cl, subclass)
             THEN [err |-> Raise("RecursionError", {"_fields"}), classes |-> cl]
             ELSE IF name \notin DictKeys(cl[subclass]._fields)
             THEN CopyToSubclasses(
                    [cl EXCEPT ![subclass]._fields =
                        Append(@, [name |-> name,
                                   field |-> [field EXCEPT !.owner_model = subclass]])],
                    Tail(subs), name, field)
             ELSE CopyToSubclasses(cl, Tail(subs), name, field)

\* The body of append_field for a schematics type: the owner and the name, the
\* entry of cls._fields, the copies of the subclasses, the class attribute.
AppendMaterialized(cl, cls, name, field) ==
    LET owned == [field EXCEPT
                     !.owner_model = cls,
                     !.name = name,
                     !.field = IF @ = Unset THEN @
                               ELSE [@ EXCEPT !.owner_model = cls]]
    IN  IF ~FieldsReadable(cl, cls)
        THEN [err |-> Raise("RecursionError", {"_fields"}), classes |-> cl]
        ELSE LET set == [cl EXCEPT ![cls]._fields = DictSet(@, name, owned)]
                 copied == CopyToSubclasses(set, cl[cls]._subclasses, name, owned)
             IN  IF copied.err # NoError THEN copied
                 ELSE [err |-> NoError,
                       classes |-> [copied.classes EXCEPT ![cls].attrs =
                           @ \cup {IF name = "fields" THEN "_fields" ELSE name}]]

\* A slip: the value is stored before its type is looked at.
append_field_stores_first(cl, cls, name, field) ==
    IF field.isField
    THEN AppendMaterialized(cl, cls, name, field)
    ELSE [err |-> Raise("TypeError", {"field must be of type BaseType"}),
          classes |-> [cl EXCEPT ![cls]._fields = DictSet(@, name, field)]]

\* BaseModel.append_field(cls, name, field)
append_field(cl, cls, name, field) ==
    IF field.isField
    THEN AppendMaterialized(cl, cls, name, field)
    ELSE [err |-> Raise("TypeError", {"field must be of type BaseType"}), classes |-> cl]

-----------------------------------------------------------------------------
(* acspec/model.py: type descriptors *)

TO_SCHEMATICS_TYPE ==
    [string |-> "StringType", integer |-> "IntType", float |-> "FloatType",
     long |-> "LongType", date |-> "DateType", timestamp |-> "DateType",
     date_time |-> "DateTimeType", boolean |-> "BooleanType",
     model |-> "ModelType", list |-> "ListType", dict |-> "DictType",
     base |-> "BaseType"]

TYPE_KEYS == {"simple", "model", "list", "dict"}

\* A TypeInfo: the two string keys and the two nested TypeInfo keys.
Simple(kind) == [simple |-> kind, model |-> None, list |-> Unset, dict |-> Unset]
ModelRef(name) == [simple |-> None, model |-> name, list |-> Unset, dict |-> Unset]
ListOf(inner) == [simple |-> None, model |-> None, list |-> inner, dict |-> Unset]
DictOf(inner) == [simple |-> None, model |-> None, list |-> Unset, dict |-> inner]

\* "if data[e]": the key holds a value
KeyIsSet(ti, key) ==
    IF key \in {"simple", "model"} THEN ti[key] # None ELSE ti[key] # Unset

SetKeys(ti) == {key \in TYPE_KEYS : KeyIsSet(ti, key)}

\* A slip: the message names one of the keys that are set.
validate_dict_names_one_key(ti) ==
    LET type_keys == SetKeys(ti)
    IN  IF Cardinality(type_keys) > 1
        THEN Raise("ValidationError", {CHOOSE key \in type_keys : TRUE})
        ELSE IF type_keys = {}
        THEN Raise("ValidationError", {})
        ELSE NoError

\* TypeInfo.validate_dict
validate_dict(ti) ==
    LET type_keys == SetKeys(ti)
    IN  IF Cardinality(type_keys) > 1
        THEN Raise("ValidationError", type_keys)
        ELSE IF type_keys = {}
        THEN Raise("ValidationError", {})
        ELSE NoError

\* TypeInfo.validate(): the choices of "simple", the nested descriptors, then
\* validate_dict.
RECURSIVE validate(_)
validate(ti) ==
    LET nested == {key \in {"list", "dict"} : KeyIsSet(ti, key)}
    IN  IF \E key \in nested : validate(ti[key]) # NoError
        THEN validate(ti[CHOOSE key \in nested : validate(ti[key]) # NoError])
        ELSE IF ti.simple # None /\ ti.simple \notin DOMAIN TO_SCHEMATICS_TYPE
        THEN Raise("ValidationError", {"simple"})
        ELSE validate_dict(ti)

\* TypeInfo.type
TypeInfo_type(ti) ==
    IF SetKeys(ti) = {} THEN None ELSE CHOOSE key \in SetKeys(ti) : TRUE

\* A slip: the inner descriptor of a list or a dict is not asked.
requires_context_of_top_level(ti) == TypeInfo_type(ti) = "model"

\* TypeInfo.requires_context
RECURSIVE requires_context(_)
requires_context(ti) ==
    LET info_type == TypeInfo_type(ti)
    IN  IF info_type = "model" THEN TRUE
        ELSE IF info_type \in {"dict", "list"} THEN requires_context(ti[info_type])
        ELSE FALSE

\* The context of a resolution: None, or an object holding the registry.
NoContext == [isNone |-> TRUE, registry |-> <<>>]
Context(registry) == [isNone |-> FALSE, registry |-> registry]

\* context.get_model_class(name): the record type registered under the name,
\* or None.
get_model_class(context, name) ==
    IF name \in DOMAIN context.registry THEN context.registry[name] ELSE None

\* TypeInfo.schematics_field_descriptor(context, **kwargs); hint is schematics'
\* counter before the call: [err, field, hint].
RECURSIVE schematics_field_descriptor(_, _, _, _)
schematics_field_descriptor(ti, context, kwargs, hint) ==
    LET info_type == TypeInfo_type(ti)
    IN  IF info_type = "simple"
        THEN [err |-> NoError, hint |-> hint + 1,
              field |-> NewField(TO_SCHEMATICS_TYPE[ti.simple], Unset, None,
                                 kwargs, hint)]
        ELSE IF info_type \in {"dict", "list"}
        THEN LET inner == schematics_field_descriptor(ti[info_type], context,
                                                      [required |-> FALSE], hint)
             IN  IF inner.err # NoError THEN inner
                 ELSE [err |-> NoError, hint |-> inner.hint + 1,
                       field |-> NewField(TO_SCHEMATICS_TYPE[info_type], inner.field,
                                          None, kwargs, inner.hint)]
        ELSE IF info_type = "model"
        THEN IF context.isNone
             THEN [err |-> Raise("AcspecContextError", {"No context provided"}),
                   hint |-> hint, field |-> NonField]
             ELSE LET model_class == get_model_class(context, ti.model)
                  IN  IF model_class = None
                      THEN [err |-> Raise("AcspecContextError", {model_class}),
                            hint |-> hint, field |-> NonField]
                      ELSE [err |-> NoError, hint |-> hint + 1,
                            field |-> NewField(TO_SCHEMATICS_TYPE[info_type], Unset,
                                               model_class, kwargs, hint)]
        ELSE [err |-> Raise("TypeError", {"Unknown field type"}),
              hint |-> hint, field |-> NonField]

\* MetaFieldDescriptor: [type, required]; _kwargs() is every option but type.
MetaFieldDescriptor_kwargs(fd) == [required |-> fd.required]
MetaFieldDescriptor_requires_context(fd) == requires_context(fd.type)
MetaFieldDescriptor_schematics_field_descriptor(fd, context, hint) ==
    schematics_field_descriptor(fd.type, context, MetaFieldDescriptor_kwargs(fd), hint)

-----------------------------------------------------------------------------
(* acspec/model.py: building and resolving a record *)

\* isinstance(base, BaseModel), base a value of the class mapping: the values
\* are class objects, and a class object is an instance of its metaclass, never
\* of BaseModel.
IsInstanceOfBaseModel(cl, base) == FALSE

\* The mapping after "for k, v in iteritems(DEFAULT_MAPPINGS)": the caller's
\* dict itself gets the defaults it lacks.
WithDefaults(mapping) ==
    [k \in DOMAIN mapping \cup DOMAIN DEFAULT_MAPPINGS |->
        IF k \in DOMAIN mapping THEN mapping[k] ELSE DEFAULT_MAPPINGS[k]]

\* A slip: a base name the mapping lacks is skipped.
_find_base_classes_skips_missing(cl, name, spec, mapping) ==
    LET merged == WithDefaults(mapping)
        declared == SelectSeq(spec.bases, LAMBDA b : b \in DOMAIN merged)
        r == [i \in 1..Len(declared) |-> merged[declared[i]]]
    IN  [err |-> NoError, bases |-> Append(r, "BaseModel"), class_mapping |-> merged]

\* A slip: BaseModel is appended only to an empty list of bases.
_find_base_classes_generic_when_empty(cl, name, spec, mapping) ==
    LET merged == WithDefaults(mapping)
        declared == spec.bases
        missing == {i \in 1..Len(declared) : declared[i] \notin DOMAIN merged}
        r == [i \in 1..Len(declared) |-> merged[declared[i]]]
    IN  IF missing # {}
        THEN [err |-> Raise("MissingBaseClassMappingError", {declared[Min(missing)]}),
              bases |-> <<>>, class_mapping |-> merged]
        ELSE [err |-> NoError,
              bases |-> IF r = <<>> THEN <<"BaseModel">> ELSE r,
              class_mapping |-> merged]

\* _find_base_classes(name, spec, class_mapping): [err, bases, class_mapping]
_find_base_classes(cl, name, spec, mapping) ==
    LET merged == WithDefaults(mapping)
        declared == spec.bases
        missing == {i \in 1..Len(declared) : declared[i] \notin DOMAIN merged}
        r == [i \in 1..Len(declared) |-> merged[declared[i]]]
    IN  IF missing # {}
        THEN [err |-> Raise("MissingBaseClassMappingError", {declared[Min(missing)]}),
              bases |-> <<>>, class_mapping |-> merged]
        ELSE [err |-> NoError,
              bases |-> IF ~\E i \in 1..Len(r) : IsInstanceOfBaseModel(cl, r[i])
                        THEN Append(r, "BaseModel") ELSE r,
              class_mapping |-> merged]

\* ResolveableModel(model_class, contextual_type_specs); calls counts the
\* resolve calls made on it.
ResolveableModel(model_class, contextual_type_specs) ==
    [model_class |-> model_class, contextual_type_specs |-> contextual_type_specs,
     resolved |-> FALSE, calls |-> 0]

\* The loop "for k, v in iterspec(spec)" of ResolveableModelFactory, from the
\* field at position i on: [err, classes, hint, contextual].
RECURSIVE FactoryFields(_, _, _, _, _, _)
FactoryFields(cl, model_class, fields, i, hint, contextual) ==
    IF i > Len(fields)
    THEN [err |-> NoError, classes |-> cl, hint |-> hint, contextual |-> contextual]
    ELSE LET k == fields[i].name
             type_spec == fields[i].fd
             checked == validate(type_spec.type)
         IN  IF checked # NoError
             THEN [err |-> checked, classes |-> cl, hint |-> hint,
                   contextual |-> contextual]
             ELSE IF MetaFieldDescriptor_requires_context(type_spec)
             THEN FactoryFields(cl, model_class, fields, i + 1, hint,
                                DictSet(contextual, k, type_spec))
             ELSE LET made == MetaFieldDescriptor_schematics_field_descriptor(
                                  type_spec, NoContext, hint)
                      added == append_field(cl, model_class, k, made.field)
                  IN  IF made.err # NoError
                      THEN [err |-> made.err, classes |-> cl, hint |-> made.hint,
                            contextual |-> contextual]
                      ELSE IF added.err # NoError
                      THEN [err |-> added.err, classes |-> added.classes,
                            hint |-> made.hint, contextual |-> contextual]
                      ELSE FactoryFields(added.classes, model_class, fields, i + 1,
                                         made.hint, contextual)

\* ResolveableModelFactory(name, spec, class_mapping):
\* [err, bases, classes, class_mapping, hint, resolvable]
ResolveableModelFactory(cl, name, spec, mapping, hint) ==
    LET found == _find_base_classes(cl, name, spec, mapping)
        made == NewClass(cl, name, found.bases)
        filled == FactoryFields(made.classes, name, spec.fields, 1, hint, <<>>)
        nothing == ResolveableModel(None, <<>>)
    IN  IF found.err # NoError
        THEN [err |-> found.err, bases |-> found.bases, classes |-> cl,
              class_mapping |-> found.class_mapping, hint |-> hint,
              resolvable |-> nothing]
        ELSE IF made.err # NoError
        THEN [err |-> made.err, bases |-> found.bases, classes |-> cl,
              class_mapping |-> found.class_mapping, hint |-> hint,
              resolvable |-> nothing]
        ELSE [err |-> filled.err, bases |-> found.bases, classes |-> filled.classes,
              class_mapping |-> found.class_mapping, hint |-> filled.hint,
              resolvable |-> ResolveableModel(name, filled.contextual)]

\* The loop of ResolveableModel.resolve from the deferred field at position i
\* on: [err, classes, hint].
RECURSIVE ResolveFields(_, _, _, _, _, _)
ResolveFields(cl, model_class, contextual, i, context, hint) ==
    IF i > Len(contextual)
    THEN [err |-> NoError, classes |-> cl, hint |-> hint]
    ELSE LET made == MetaFieldDescriptor_schematics_field_descriptor(
                         contextual[i].field, context, hint)
             added == append_field(cl, model_class, contextual[i].name, made.field)
         IN  IF made.err # NoError
             THEN [err |-> made.err, classes |-> cl, hint |-> made.hint]
             ELSE IF added.err # NoError
             THEN [err |-> added.err, classes |-> added.classes, hint |-> made.hint]
             ELSE ResolveFields(added.classes, model_class, contextual, i + 1,
                                context, made.hint)

\* ResolveableModel.resolve(context): [err, classes, hint, resolvable]
resolve(cl, self, context, hint) ==
    LET done == ResolveFields(cl, self.model_class, self.contextual_type_specs, 1,
                              context, hint)
    IN  [err |-> done.err, classes |-> done.classes, hint |-> done.hint,
         resolvable |-> [self EXCEPT !.resolved = IF done.err = NoError
                                                  THEN TRUE ELSE @,
                                     !.calls = @ + 1]]

\* No call made yet.
NoCall == [op |-> None, cls |-> None, name |-> None, field |-> NonField,
           err |-> NoError, n |-> 0, bases |-> <<>>, ret |-> FALSE]

\* No descriptor held by the caller.
NoTypeSpec == [type |-> Unset, required |-> FALSE]
TypeIdle == descriptor = NoTypeSpec /\ ctx = NoContext

\* The classes as they are when nothing has been built.
ModelIdle ==
    /\ classes = InitialClasses
    /\ class_mapping = <<>>
    /\ resolvables = <<>>
    /\ position_hint = 0
    /\ phase = "order"
    /\ last = NoCall

-----------------------------------------------------------------------------
(* The dependency orderer alone, on every input within the bounds *)

BaseLists == {SetToSeq(S) : S \in {T \in SUBSET (Names \cup Externals) :
                                       Cardinality(T) <= MaxBases}}

InitOrder ==
    /\ specs \in [Names -> [bases : BaseLists, fields : {<<>>}]]
    /\ order \in Perms(Names)
    /\ pre_emitted \in {SetToSeq(S) : S \in SUBSET SeedNames}
    /\ topological_iteritems(specs, order, pre_emitted)
    /\ TypeIdle
    /\ ModelIdle

NextOrder ==
    \/ TopoVisit /\ UNCHANGED <<inputVars, modelVars>>
    \/ TopoEndPass /\ UNCHANGED <<inputVars, modelVars>>

SpecOrder == InitOrder /\ [][NextOrder]_vars

\* The base graph over the record names of the input.
RecordBases(sp, n) == _get_bases(sp[n]) \cap DOMAIN sp

RECURSIVE BasesClosure(_, _, _)
BasesClosure(sp, S, k) ==
    IF k = 0 THEN S
    ELSE BasesClosure(sp, S \cup UNION {RecordBases(sp, m) : m \in S}, k - 1)

DependsOn(sp, n) == BasesClosure(sp, RecordBases(sp, n), Cardinality(DOMAIN sp))

HasCycle(sp) == \E n \in DOMAIN sp : n \in DependsOn(sp, n)

Finished == tstate \in {"done", "raised"}

\* C1: when the base graph over the record names is acyclic, every record is
\* yielded exactly once (the orderer does not raise and ends with all of
\* them), and a record is yielded only after the record names of its bases
\* list were yielded or seeded.
C1_YieldsEachOnceAfterBases ==
    ~HasCycle(specs) =>
        /\ IsInjective(yielded)
        /\ \A k \in 1..Len(yielded) :
              RecordBases(specs, yielded[k])
                  \subseteq Range(SubSeq(yielded, 1, k - 1)) \cup Range(pre_emitted)
        /\ tstate # "raised"
        /\ tstate = "done" => Range(yielded) = DOMAIN specs

\* C2: when the base graph has a cycle, the orderer never ends normally, and
\* no record is yielded before it raises.
C2_CycleRaisesBeforeAnyYield ==
    HasCycle(specs) => (tstate # "done" /\ yielded = <<>>)

\* C3: with an empty seed, a record whose bases are all names outside the
\* input is yielded, and such names never make the orderer raise: it raises
\* only when the record names form a cycle.
C3_ExternalBaseIsNoEdge ==
    pre_emitted = <<>> =>
        /\ \A n \in DOMAIN specs :
              (_get_bases(specs[n]) # {} /\ RecordBases(specs, n) = {} /\ Finished)
                  => n \in Range(yielded)
        /\ tstate = "raised" => HasCycle(specs)

\* The consumer keeps iterating: the generator is resumed until it ends.
SpecOrderLive == SpecOrder /\ WF_vars(NextOrder)

\* C18: the orderer terminates; every pass either yields a record and leaves
\* fewer records pending, or yields none and raises; and it ends normally,
\* with nothing pending, exactly when the base graph has no cycle.
C18_TerminatesEmptyIffAcyclic ==
    /\ <>Finished
    /\ [][TopoEndPass =>
             \/ next_emitted # <<>> /\ Len(next_pending) < Len(pending)
             \/ next_emitted = <<>> /\ tstate' = "raised"]_vars
    /\ [](Finished => (tstate = "done" <=> ~HasCycle(specs)))
    /\ [](tstate = "done" => pending = <<>>)

-----------------------------------------------------------------------------
(* append_field on the classes a caller derives, call after call *)

\* Largest number of append_field calls in one run.
MaxCalls == 3

\* The classes the caller derives, and the names it gives to fields.
UserClasses == {"A", "B"}
FieldNames == {"x", "fields"}

ModelClasses(cl) == {c \in DOMAIN cl : cl[c].isModel}

\* StringType() and ListType(StringType()): the inner object is created first.
NoKwargs == [required |-> FALSE]
StringField(hint) == NewField("StringType", Unset, None, NoKwargs, hint)
ListField(hint) ==
    NewField("ListType", StringField(hint), None, NoKwargs, hint + 1)

InitInject ==
    /\ specs = <<>>
    /\ order = <<>>
    /\ pre_emitted = <<>>
    /\ topological_iteritems(specs, order, pre_emitted)
    /\ TypeIdle
    /\ classes = InitialClasses
    /\ class_mapping = <<>>
    /\ resolvables = <<>>
    /\ position_hint = 0
    /\ phase = "calls"
    /\ last = NoCall

\* class name(bases): pass
CreateSubclass(name, bases) ==
    /\ phase = "calls"
    /\ name \notin DOMAIN classes
    /\ \E made \in {NewClass(classes, name, bases)} :
           /\ classes' = made.classes
           /\ last' = [op |-> "type", cls |-> name, name |-> None,
                       field |-> NonField, err |-> made.err, n |-> last.n,
                       bases |-> bases, ret |-> FALSE]
    /\ UNCHANGED <<inputVars, topoVars, class_mapping, resolvables, position_hint,
                   phase>>

\* cls.append_field(name, value)
AppendFieldCall(cls, name, value, created) ==
    /\ phase = "calls"
    /\ \E done \in {append_field(classes, cls, name, value)} :
           /\ classes' = done.classes
           /\ last' = [op |-> "append_field", cls |-> cls, name |-> name,
                       field |-> value, err |-> done.err, n |-> last.n + 1,
                       bases |-> <<>>, ret |-> FALSE]
    /\ position_hint' = position_hint + created
    /\ UNCHANGED <<inputVars, topoVars, class_mapping, resolvables, phase>>

NextInject ==
    \/ \E name \in UserClasses, base \in ModelClasses(classes) :
            CreateSubclass(name, <<base>>)
    \/ \E cls \in ModelClasses(classes) \cap UserClasses, name \in FieldNames :
            /\ last.n < MaxCalls
            /\ \/ AppendFieldCall(cls, name, StringField(position_hint), 1)
               \/ AppendFieldCall(cls, name, ListField(position_hint), 2)
               \/ AppendFieldCall(cls, name, NonField, 0)

SpecInject == InitInject /\ [][NextInject]_vars

\* The class has the name in its field table.
HasField(cl, c, name) == FieldsReadable(cl, c) /\ name \in DictKeys(cl[c]._fields)

\* The step is a call of append_field.
AppendFieldStep == last' # last /\ last'.op = "append_field"

\* C6: append_field(A, x, f) with a field f leaves A with x, owned by A, and
\* every known subclass B of A that did not define x with a copy of A's x that
\* differs from it in the owner only, which is B.
C6_LateFieldPropagation ==
    [][(AppendFieldStep /\ last'.field.isField) =>
          LET A == last'.cls
              x == last'.name
          IN  \A i \in 1..Len(classes[A]._subclasses) :
                LET B == classes[A]._subclasses[i]
                IN  ~HasField(classes, B, x) =>
                      /\ HasField(classes', A, x)
                      /\ HasField(classes', B, x)
                      /\ DictGet(classes'[A]._fields, x).owner_model = A
                      /\ DictGet(classes'[B]._fields, x)
                            = [DictGet(classes'[A]._fields, x) EXCEPT !.owner_model = B]
      ]_vars

\* C7: append_field with a value that is no schematics type raises TypeError
\* and leaves every class as it was: the field tables, the attributes and the
\* subclasses' field tables.
C7_NonFieldChangesNothing ==
    [][(AppendFieldStep /\ ~last'.field.isField) =>
          (last'.err.kind = "TypeError" /\ classes' = classes)]_vars

\* A non-field was refused by a class that has fields and a subclass.
C7_Witness ==
    /\ last.op = "append_field"
    /\ ~last.field.isField
    /\ last.err.kind = "TypeError"
    /\ classes[last.cls]._fields # <<>>
    /\ classes[last.cls]._subclasses # <<>>

\* C13: append_field with the name "fields" and a field, and every later
\* append_field with a field on a class that was given a field of that name,
\* returns normally and leaves the class's field table readable, holding the
\* names it held before and the new one.
C13_FieldsNameKeepsTheTable ==
    [][(AppendFieldStep /\ last'.field.isField
          /\ (last'.name = "fields"
                \/ "fields" \in DictKeys(classes[last'.cls]._fields)))
        => /\ last'.err = NoError
           /\ FieldsReadable(classes', last'.cls)
           /\ DictKeys(classes'[last'.cls]._fields)
                 = DictKeys(classes[last'.cls]._fields) \cup {last'.name}
      ]_vars

\* C17: append_field(A, x, f) with a field f, when a known subclass of A has x
\* in its field table: the entry of every such subclass is the same after the
\* call, owner included, and A's entry for x is f, owned by A.
C17_SubclassOwnFieldIsKept ==
    [][(AppendFieldStep /\ last'.field.isField) =>
          LET A == last'.cls
              x == last'.name
              defining == {B \in Range(classes[A]._subclasses) :
                              HasField(classes, B, x)}
          IN  defining # {} =>
                /\ \A B \in defining :
                      /\ HasField(classes', B, x)
                      /\ DictGet(classes'[B]._fields, x) = DictGet(classes[B]._fields, x)
                /\ HasField(classes', A, x)
                /\ DictGet(classes'[A]._fields, x).hint = last'.field.hint
                /\ DictGet(classes'[A]._fields, x).type = last'.field.type
                /\ DictGet(classes'[A]._fields, x).owner_model = A
      ]_vars

-----------------------------------------------------------------------------
(* append_field on a chain of derived classes: the subclasses of subclasses *)

\* Largest number of append_field calls in one run on the chain.
MaxChainCalls == 2

ChainClasses == {"A", "B", "C"}

NextChain ==
    \/ \E name \in ChainClasses, base \in ModelClasses(classes) :
            CreateSubclass(name, <<base>>)
    \/ \E cls \in ModelClasses(classes) \cap ChainClasses, name \in FieldNames :
            /\ last.n < MaxChainCalls
            /\ \/ AppendFieldCall(cls, name, StringField(position_hint), 1)
               \/ AppendFieldCall(cls, name, ListField(position_hint), 2)
               \/ AppendFieldCall(cls, name, NonField, 0)

SpecChain == InitInject /\ [][NextChain]_vars

\* C16: every class derived from a class, directly or through other classes,
\* has in its field table every name the field table of that class has.
C16_SubtypesHaveSupertypeFields ==
    \A c \in ModelClasses(classes), d \in ModelClasses(classes) :
        (d # c /\ IsSubclass(classes, d, c)) =>
            \A name \in FieldNames : HasField(classes, c, name) => HasField(classes, d, name)

-----------------------------------------------------------------------------
(* The two phases over a set of record specs.  The caller (acspec/base.py) is *)
(* modelled from its description: phase 1 builds every record in the order    *)
(* of topological_iteritems and registers the class under the record's name   *)
(* (the mapping holds the models that inherit from each other, model.py lines *)
(* 275-278); phase 2 resolves the pending records, in any order, against the  *)
(* registry of all of them.                                                   *)

\* Largest number of resolve calls on one ResolveableModel.
MaxResolves == 2

BuildNames == {"a", "b"}

\* The capability names a caller maps, and the mappings and seeds it passes.
CapNames == {"dont_serialize_when_none", "base", "mixin"}
CallerMappings == {[base |-> "BaseModel", mixin |-> "Mixin"], [mixin |-> "Mixin"]}
CallerSeeds == {<<>>, SetToSeq(CapNames)}

\* The descriptors of the input: scalars and record references, bare and
\* nested in lists and dicts.
FieldTypes ==
    {Simple("string"), DictOf(Simple("string")),
     ModelRef("a"), ModelRef("b"),
     ListOf(ModelRef("b")), DictOf(ListOf(ModelRef("a")))}

FieldSpecs ==
    {[type |-> t, required |-> FALSE] : t \in FieldTypes}
        \cup {[type |-> ModelRef("b"), required |-> TRUE]}

\* The field lists of a record: no field, the field x, or the fields x and y,
\* one of them a record reference.
FieldLists ==
    {<<>>} \cup {<<[name |-> "x", fd |-> fd]>> : fd \in FieldSpecs}
           \cup {<<[name |-> "x", fd |-> [type |-> ModelRef("b"), required |-> FALSE]],
                    [name |-> "y", fd |-> [type |-> Simple("string"), required |-> FALSE]]>>,
                  <<[name |-> "x", fd |-> [type |-> Simple("string"), required |-> FALSE]],
                    [name |-> "y", fd |-> [type |-> ListOf(ModelRef("a")), required |-> FALSE]]>>}

\* The bases lists of a record: none, one record or capability name, or two
\* capability names.
BuildBaseLists ==
    {<<>>} \cup {<<b>> : b \in BuildNames \cup CapNames}
           \cup {<<"mixin", "base">>, <<"dont_serialize_when_none", "mixin">>}

InitBuild ==
    /\ specs \in [BuildNames -> [bases : BuildBaseLists, fields : FieldLists]]
    /\ order \in Perms(BuildNames)
    /\ pre_emitted \in CallerSeeds
    /\ topological_iteritems(specs, order, pre_emitted)
    /\ TypeIdle
    /\ classes = InitialClasses
    /\ class_mapping \in CallerMappings
    /\ resolvables = <<>>
    /\ position_hint = 0
    /\ phase = "phase1"
    /\ last = NoCall

\* The registry as the context of phase 2.
Registry == [n \in DOMAIN resolvables |-> resolvables[n].model_class]

\* The body of the caller's loop over topological_iteritems, for the record
\* just yielded.
BuildYielded(name) ==
    \E built \in {ResolveableModelFactory(classes, name, specs[name], class_mapping,
                                         position_hint)} :
        /\ classes' = built.classes
        /\ position_hint' = built.hint
        /\ last' = [op |-> "ResolveableModelFactory", cls |-> name, name |-> None,
                    field |-> NonField, err |-> built.err, n |-> last.n + 1,
                    bases |-> built.bases, ret |-> FALSE]
        /\ IF built.err = NoError
           THEN /\ resolvables' = [n \in DOMAIN resolvables \cup {name} |->
                                     IF n = name THEN built.resolvable
                                     ELSE resolvables[n]]
                /\ class_mapping' = [k \in DOMAIN built.class_mapping \cup {name} |->
                                       IF k = name THEN built.resolvable.model_class
                                       ELSE built.class_mapping[k]]
                /\ phase' = phase
           ELSE /\ resolvables' = resolvables
                /\ class_mapping' = built.class_mapping
                /\ phase' = "failed"

\* Phase 1, one entry of the orderer's pass: the record is kept pending, or it
\* is yielded and built.
Phase1Visit ==
    /\ phase = "phase1"
    /\ TopoVisit
    /\ IF yielded' # yielded
       THEN BuildYielded(yielded'[Len(yielded')])
       ELSE UNCHANGED modelVars
    /\ UNCHANGED inputVars

\* Phase 1, the end of a pass: the orderer raises, goes on, or is exhausted.
Phase1EndPass ==
    /\ phase = "phase1"
    /\ TopoEndPass
    /\ phase' = CASE tstate' = "raised" -> "failed"
                  [] tstate' = "done" -> "phase2"
                  [] OTHER -> phase
    /\ last' = IF tstate' = "raised"
               THEN [op |-> "topological_iteritems", cls |-> None, name |-> None,
                     field |-> NonField,
                     err |-> Raise("ValueError", {"Cyclic inheritance"}),
                     n |-> last.n + 1, bases |-> <<>>, ret |-> FALSE]
               ELSE last
    /\ UNCHANGED <<inputVars, classes, class_mapping, resolvables, position_hint>>

\* Phase 2: resolvable.resolve(context) on one pending record.
Phase2Resolve(name) ==
    /\ phase = "phase2"
    /\ name \in DOMAIN resolvables
    /\ resolvables[name].calls < MaxResolves
    /\ \E done \in {resolve(classes, resolvables[name], Context(Registry),
                              position_hint)} :
           /\ classes' = done.classes
           /\ position_hint' = done.hint
           /\ resolvables' = [resolvables EXCEPT ![name] = done.resolvable]
           /\ last' = [op |-> "resolve", cls |-> name, name |-> None,
                       field |-> NonField, err |-> done.err, n |-> last.n + 1,
                       bases |-> <<>>, ret |-> FALSE]
    /\ UNCHANGED <<inputVars, topoVars, class_mapping, phase>>

NextBuild ==
    \/ Phase1Visit
    \/ Phase1EndPass
    \/ \E name \in BuildNames : Phase2Resolve(name)

SpecBuild == InitBuild /\ [][NextBuild]_vars

\* The record names a descriptor refers to.
RECURSIVE RefNames(_)
RefNames(ti) ==
    (IF ti.model # None THEN {ti.model} ELSE {})
        \cup (IF ti.list # Unset THEN RefNames(ti.list) ELSE {})
        \cup (IF ti.dict # Unset THEN RefNames(ti.dict) ELSE {})

\* The field is the materialization of the descriptor, every record reference
\* of it bound to the class registered under the referenced name.
RECURSIVE BoundTo(_, _)
BoundTo(ti, f) ==
    LET info_type == TypeInfo_type(ti)
    IN  /\ f.isField
        /\ IF info_type = "model"
           THEN /\ f.type = "ModelType"
                /\ ti.model \in DOMAIN resolvables
                /\ f.model_class = resolvables[ti.model].model_class
           ELSE IF info_type \in {"list", "dict"}
           THEN /\ f.type = TO_SCHEMATICS_TYPE[info_type]
                /\ f.field # Unset
                /\ BoundTo(ti[info_type], f.field)
           ELSE f.type = TO_SCHEMATICS_TYPE[ti.simple]

\* The input the two phases are meant for: no cycle of bases, every record
\* reference and every base name known, the capability names seeded.
WellFormedInput ==
    /\ ~HasCycle(specs)
    /\ \A n \in DOMAIN specs :
          /\ \A i \in 1..Len(specs[n].fields) :
                RefNames(specs[n].fields[i].fd.type) \subseteq DOMAIN specs
          /\ _get_bases(specs[n]) \subseteq
                DOMAIN specs \cup (DOMAIN WithDefaults(class_mapping)
                                      \cap Range(pre_emitted))

AllResolved ==
    /\ phase = "phase2"
    /\ \A n \in DOMAIN specs : n \in DOMAIN resolvables /\ resolvables[n].resolved

\* C4: on such an input phase 1 and phase 2 succeed, and then every field
\* whose descriptor holds a record reference is in the record's field table,
\* bound to the class registered under the referenced name.
C4_TwoPhasesBindEveryReference ==
    WellFormedInput =>
        /\ phase # "failed"
        /\ last.op = "resolve" => last.err = NoError
        /\ AllResolved =>
              \A n \in DOMAIN specs : \A i \in 1..Len(specs[n].fields) :
                 LET f == specs[n].fields[i]
                 IN  requires_context(f.fd.type) =>
                        /\ HasField(classes, resolvables[n].model_class, f.name)
                        /\ BoundTo(f.fd.type,
                               DictGet(classes[resolvables[n].model_class]._fields,
                                       f.name))

\* C5: resolve on a ResolveableModel that is resolved raises the
\* already-resolved error and changes no class.
C5_SecondResolveFails ==
    [][(last' # last /\ last'.op = "resolve" /\ resolvables[last'.cls].resolved) =>
          (last'.err.kind = "AlreadyResolvedError" /\ classes' = classes)]_vars

\* The step is a call of ResolveableModelFactory.
FactoryStep == last' # last /\ last'.op = "ResolveableModelFactory"

\* The field names of a record spec in the order of their declaration, and
\* those of them that a class has in its field table, in the table's order.
DeclaredNames(spec) == [i \in 1..Len(spec.fields) |-> spec.fields[i].name]
TableNames(cl, c, spec) ==
    SelectSeq([i \in 1..Len(cl[c]._fields) |-> cl[c]._fields[i].name],
              LAMBDA name : name \in Range(DeclaredNames(spec)))

\* C15: ResolveableModelFactory, on a record whose base names are all mapped,
\* returns normally whether the records its fields refer to are built or not,
\* and then every field of the spec is in the class's field table exactly
\* when its descriptor requires no context, and in contextual_type_specs
\* exactly when it does.
C15_FactoryNeedsNoContext ==
    [][(FactoryStep /\ _get_bases(specs[last'.cls])
                          \subseteq DOMAIN class_mapping \cup DOMAIN DEFAULT_MAPPINGS) =>
          /\ last'.err = NoError
          /\ last'.cls \in DOMAIN resolvables'
          /\ \A i \in 1..Len(specs[last'.cls].fields) :
                LET f == specs[last'.cls].fields[i]
                    deferred == f.name \in DictKeys(
                                   resolvables'[last'.cls].contextual_type_specs)
                    injected == HasField(classes', last'.cls, f.name)
                IN  /\ deferred <=> requires_context(f.fd.type)
                    /\ injected <=> ~requires_context(f.fd.type)
      ]_vars

\* C19: when a record is built and resolved, the names of its spec's fields
\* are in its field table in the order of their declaration.
C19_TableKeepsDeclarationOrder ==
    \A n \in DOMAIN resolvables :
        (resolvables[n].resolved /\ FieldsReadable(classes, n)) =>
            TableNames(classes, n, specs[n]) = DeclaredNames(specs[n])

\* C8: when a declared base name of the record is neither in the caller's
\* mapping nor in DEFAULT_MAPPINGS, ResolveableModelFactory raises
\* MissingBaseClassMappingError, and no class is created or changed.
C8_MissingBaseRaisesBeforeCreation ==
    [][(FactoryStep /\ \E b \in _get_bases(specs[last'.cls]) :
                          b \notin DOMAIN class_mapping \cup DOMAIN DEFAULT_MAPPINGS) =>
          /\ last'.err.kind = "MissingBaseClassMappingError"
          /\ classes' = classes
          /\ resolvables' = resolvables]_vars

\* The factory refused a record that declares fields and two bases, the first
\* of them mapped.
C8_Witness ==
    /\ last.op = "ResolveableModelFactory"
    /\ last.err.kind = "MissingBaseClassMappingError"
    /\ specs[last.cls].fields # <<>>
    /\ Len(specs[last.cls].bases) = 2
    /\ specs[last.cls].bases[1] \in DOMAIN class_mapping
    /\ last.cls \notin DOMAIN classes

\* C9: every class ResolveableModelFactory created is a subclass of BaseModel.
C9_EveryRecordIsABaseModel ==
    \A c \in DOMAIN classes \ DOMAIN InitialClasses :
        IsSubclass(classes, c, "BaseModel")

\* Two records are built: one declares no base, one a base that is no model.
C9_Witness ==
    \E n, m \in DOMAIN resolvables :
        /\ specs[n].bases = <<>>
        /\ specs[m].bases = <<"mixin">>
        /\ {n, m} \subseteq DOMAIN classes

\* C10: the list of bases the factory computes is the list of the mapped
\* classes when one of them is BaseModel or derives from it, that list with
\* BaseModel appended otherwise, and never holds BaseModel twice.
C10_GenericBaseOnlyWhenMissing ==
    (last.op = "ResolveableModelFactory"
        /\ last.err.kind # "MissingBaseClassMappingError") =>
        LET declared == specs[last.cls].bases
            r == [i \in 1..Len(declared) |-> class_mapping[declared[i]]]
            carried == \E i \in 1..Len(r) : IsSubclass(classes, r[i], "BaseModel")
        IN  /\ last.bases = IF carried THEN r ELSE Append(r, "BaseModel")
            /\ Cardinality({i \in 1..Len(last.bases) :
                               last.bases[i] = "BaseModel"}) <= 1

-----------------------------------------------------------------------------
(* The type descriptors: validate, requires_context and the materialization *)
(* of one MetaFieldDescriptor, as ResolveableModelFactory and resolve call    *)
(* them: validate first, the other two on a descriptor that passed it.        *)

\* Largest number of calls on the descriptor in one run.
MaxTypeCalls == 2

\* The descriptors a caller may hold: of every shape, well formed or not, up
\* to two levels of nesting.
NoKey == [simple |-> None, model |-> None, list |-> Unset, dict |-> Unset]
Leaves ==
    {Simple("string"), Simple("integer"), ModelRef("a"), ModelRef("b"), NoKey,
     [Simple("string") EXCEPT !.model = "a"]}
Nest(S) ==
    {ListOf(t) : t \in S} \cup {DictOf(t) : t \in S}
        \cup {[ListOf(t) EXCEPT !.simple = "string"] : t \in S}
        \cup {[ListOf(t) EXCEPT !.dict = t] : t \in S}
TypeInfos == Leaves \cup Nest(Leaves) \cup Nest(Leaves \cup Nest(Leaves))

\* The contexts a caller may pass: None, or a registry of some of the records.
Contexts ==
    {NoContext, Context(<<>>), Context([a |-> "A"]), Context([a |-> "A", b |-> "B"])}

InitType ==
    /\ specs = <<>>
    /\ order = <<>>
    /\ pre_emitted = <<>>
    /\ topological_iteritems(specs, order, pre_emitted)
    /\ descriptor \in [type : TypeInfos, required : BOOLEAN]
    /\ ctx \in Contexts
    /\ \E a \in {NewClass(InitialClasses, "A", <<"BaseModel">>)} :
          \E b \in {NewClass(a.classes, "B", <<"BaseModel">>)} :
             classes = b.classes
    /\ class_mapping = <<>>
    /\ resolvables = <<>>
    /\ position_hint = 0
    /\ phase = "types"
    /\ last = NoCall

TypeCall(op, err, field, ret, hint) ==
    /\ phase = "types"
    /\ last.n < MaxTypeCalls
    /\ last' = [op |-> op, cls |-> None, name |-> None, field |-> field,
                err |-> err, n |-> last.n + 1, bases |-> <<>>, ret |-> ret]
    /\ position_hint' = hint
    /\ UNCHANGED <<inputVars, topoVars, classes, class_mapping, resolvables, phase>>

\* descriptor.validate()
ValidateCall ==
    TypeCall("validate", validate(descriptor.type), NonField, FALSE, position_hint)

\* descriptor.requires_context()
RequiresContextCall ==
    /\ validate(descriptor.type) = NoError
    /\ TypeCall("requires_context", NoError, NonField,
                MetaFieldDescriptor_requires_context(descriptor), position_hint)

\* descriptor.schematics_field_descriptor(context=context)
MaterializeCall ==
    /\ validate(descriptor.type) = NoError
    /\ \E made \in {MetaFieldDescriptor_schematics_field_descriptor(
                         descriptor, ctx, position_hint)} :
           TypeCall("schematics_field_descriptor", made.err, made.field, FALSE,
                    made.hint)

NextType ==
    \/ ValidateCall
    \/ RequiresContextCall
    \/ MaterializeCall

SpecType == InitType /\ [][NextType]_vars

\* Exactly one of the four keys is set, at every nesting depth.
RECURSIVE WellShaped(_)
WellShaped(ti) ==
    /\ Cardinality(SetKeys(ti)) = 1
    /\ ti.list # Unset => WellShaped(ti.list)
    /\ ti.dict # Unset => WellShaped(ti.dict)

\* The descriptor and the descriptors nested in it.
RECURSIVE SubDescriptors(_)
SubDescriptors(ti) ==
    {ti} \cup (IF ti.list # Unset THEN SubDescriptors(ti.list) ELSE {})
         \cup (IF ti.dict # Unset THEN SubDescriptors(ti.dict) ELSE {})

\* C11: the materialization of a descriptor that holds a record reference, at
\* the top or nested in lists and dicts, raises AcspecContextError when the
\* context is None, and raises AcspecContextError naming the referenced record
\* when the context's registry has no record of that name.
C11_ContextErrorNamesMissingRecord ==
    (last.op = "schematics_field_descriptor" /\ RefNames(descriptor.type) # {}) =>
        /\ ctx.isNone => last.err.kind = "AcspecContextError"
        /\ (~ctx.isNone
               /\ ~(RefNames(descriptor.type) \subseteq DOMAIN ctx.registry)) =>
              /\ last.err.kind = "AcspecContextError"
              /\ last.err.arg = RefNames(descriptor.type) \ DOMAIN ctx.registry

\* C12: validate succeeds exactly on the descriptors with one key set at every
\* depth; otherwise it raises ValidationError for a descriptor, the given one
\* or a nested one, with no key or several keys set, naming every key set in
\* it; the error of a descriptor whose nested descriptors are all well shaped
\* is about the descriptor itself.
C12_ValidateIffOneKeyPerLevel ==
    last.op = "validate" =>
        LET ti == descriptor.type
            nested == SubDescriptors(ti) \ {ti}
        IN  /\ last.err = NoError <=> WellShaped(ti)
            /\ last.err # NoError =>
                  /\ last.err.kind = "ValidationError"
                  /\ \E d \in SubDescriptors(ti) :
                        Cardinality(SetKeys(d)) # 1 /\ last.err.arg = SetKeys(d)
                  /\ (\A d \in nested : Cardinality(SetKeys(d)) = 1) =>
                        last.err.arg = SetKeys(ti)

\* validate refused a descriptor with the scalar key and the list key set,
\* naming both.
C12_Witness ==
    /\ last.op = "validate"
    /\ SetKeys(descriptor.type) = {"simple", "list"}
    /\ WellShaped(descriptor.type.list)
    /\ last.err = Raise("ValidationError", {"simple", "list"})

\* C20: requires_context of a field descriptor is that of its type descriptor,
\* which is true exactly when a record reference occurs in it at some depth.
C20_RequiresContextIffReference ==
    last.op = "requires_context" =>
        LET ti == descriptor.type
        IN  /\ last.ret = (RefNames(ti) # {})
            /\ last.ret = requires_context(ti)
            /\ ti.model # None => last.ret
            /\ ti.simple # None => ~last.ret
            /\ ti.list # Unset => (last.ret = requires_context(ti.list))
            /\ ti.dict # Unset => (last.ret = requires_context(ti.dict))

\* requires_context answered true for a record reference two levels deep.
C20_Witness ==
    /\ last.op = "requires_context"
    /\ last.ret
    /\ descriptor.type.dict # Unset
    /\ descriptor.type.dict.list # Unset
    /\ descriptor.type.dict.list.model # None

-----------------------------------------------------------------------------
(* resolve with any context a caller may pass: phase 1 as above, then          *)
(* resolvable.resolve(context) with None, with the registry of all the built  *)
(* records, or with a registry that lacks record b.                           *)

\* Largest number of resolve calls on one ResolveableModel, any context.
MaxContextResolves == 2

\* The field lists of a record: record references under the names x, y and
\* fields, bare and nested, after a scalar or alone.
ResolveFieldLists ==
    {<<>>,
     <<[name |-> "x", fd |-> [type |-> ModelRef("b"), required |-> FALSE]]>>,
     <<[name |-> "x", fd |-> [type |-> ListOf(ModelRef("a")), required |-> FALSE]]>>,
     <<[name |-> "x", fd |-> [type |-> Simple("string"), required |-> FALSE]],
       [name |-> "y", fd |-> [type |-> ModelRef("b"), required |-> FALSE]]>>,
     <<[name |-> "fields", fd |-> [type |-> ModelRef("b"), required |-> FALSE]]>>}

ResolveBaseLists == {<<>>, <<"a">>, <<"mixin">>}

InitResolve ==
    /\ specs \in [BuildNames -> [bases : ResolveBaseLists, fields : ResolveFieldLists]]
    /\ order \in Perms(BuildNames)
    /\ pre_emitted = SetToSeq(CapNames)
    /\ topological_iteritems(specs, order, pre_emitted)
    /\ TypeIdle
    /\ classes = InitialClasses
    /\ class_mapping = [mixin |-> "Mixin"]
    /\ resolvables = <<>>
    /\ position_hint = 0
    /\ phase = "phase1"
    /\ last = NoCall

\* The contexts a caller may pass to resolve.
ResolveContexts ==
    {NoContext, Context(Registry),
     Context([n \in DOMAIN Registry \ {"b"} |-> Registry[n]])}

\* resolvable.resolve(context) on one pending record.
ResolveWith(name, context) ==
    /\ phase = "phase2"
    /\ name \in DOMAIN resolvables
    /\ resolvables[name].calls < MaxContextResolves
    /\ \E done \in {resolve(classes, resolvables[name], context, position_hint)} :
           /\ classes' = done.classes
           /\ position_hint' = done.hint
           /\ resolvables' = [resolvables EXCEPT ![name] = done.resolvable]
           /\ last' = [op |-> "resolve", cls |-> name, name |-> None,
                       field |-> NonField, err |-> done.err, n |-> last.n + 1,
                       bases |-> <<>>, ret |-> FALSE]
    /\ UNCHANGED <<inputVars, topoVars, class_mapping, phase>>

NextResolve ==
    \/ Phase1Visit
    \/ Phase1EndPass
    \/ \E name \in BuildNames, context \in ResolveContexts : ResolveWith(name, context)

SpecResolve == InitResolve /\ [][NextResolve]_vars

\* The deferred field names of a ResolveableModel.
DeferredNames(r) == DictKeys(r.contextual_type_specs)

\* C21: a ResolveableModel whose resolved flag is true has every deferred
\* field name in the field table of its class, and a resolve call that raises
\* AcspecContextError leaves the flag as it was, false if it was false.
C21_ResolvedFlagMeansFieldsInjected ==
    /\ [](\A n \in DOMAIN resolvables :
             resolvables[n].resolved =>
                 \A name \in DeferredNames(resolvables[n]) :
                     HasField(classes, resolvables[n].model_class, name))
    /\ [][(last' # last /\ last'.op = "resolve"
             /\ last'.err.kind = "AcspecContextError") =>
             resolvables'[last'.cls].resolved = resolvables[last'.cls].resolved]_vars

====
